---- MODULE Spec2Model ----
(***************************************************************************)
(* Document management service: the storage layer of the backend.          *)
(*                                                                         *)
(* State: the active storage type (BaseConfig.STORAGE_TYPE), the metadata  *)
(* store (documentRepo), the remote bucket (S3), the files on disk, and    *)
(* the observable outcome of the last DocumentService call.                *)
(***************************************************************************)
EXTENDS Integers, Sequences, FiniteSets, TLC

\* ------------------------------------------------------------------ bounds
MaxDocs == 1            \* ids the metadata store hands out: 1..MaxDocs

\* ------------------------------------------------------- absent JS values
NoPath   == "<undefined>"   \* path?: string left undefined
EmptyPath == ""             \* the empty string, falsy in JS
NoBuffer == <<-1>>          \* fileBuffer?/buffer? left undefined
NoFile   == <<-1>>          \* no file at a path
NoKey    == <<>>            \* s3Key? left undefined
NoText   == <<-1>>          \* no content returned
MalformedId == 0            \* a string new ObjectId() rejects
NoDate   == 0               \* createdAt before the record is saved

\* ----------------------------------------------------------- input samples
Paths    == {"/tmp/a.txt"}
Contents == {<<195, 169>>, <<255>>}   \* "e-acute", and a lone byte 0xFF
Names    == {<<"a", " ", "t">>}
Times    == {1}
Dates    == {1}
Rands    == {<<"r", "1">>, <<"r", "2">>}   \* random parts, as characters
EnvValues == {"<unset>", "", "filesystem", "mongodb", "s3", "S3"}

Ids == 1..MaxDocs

VARIABLES storageType, repo, s3, files, nextId, created, op

vars == <<storageType, repo, s3, files, nextId, created, op>>

\* ---------------------------------------------------------------- helpers
EmptyMap == [k \in {} |-> NoKey]

Without(f, k) == [x \in (DOMAIN f) \ {k} |-> f[x]]

\* JS truthiness of a `string | undefined`: undefined and '' are falsy.
Truthy(str) == str # NoPath /\ str # EmptyPath

\* --------------------------------------------- Storage Strategy Resolver
\* (process.env.STORAGE_TYPE as ...) || 'filesystem'
ResolveStorageType(env) ==
    IF env = "<unset>" \/ env = "" THEN "filesystem" ELSE env

isS3Storage == storageType = "s3"

isMongoDBStorage == storageType = "mongodb"

isFileSystemStorage == storageType = "filesystem"

\* The branch the service's if / else-if / else chains take for a storage type:
\* whatever is neither 's3' nor 'mongodb' is served as filesystem.
BackendOf(type) ==
    IF type = "s3" THEN "s3" ELSE IF type = "mongodb" THEN "mongodb" ELSE "filesystem"

ActiveBackend == BackendOf(storageType)

\* ------------------------------------------------------- text conversion
\* Buffer.toString('utf-8') / readFile(path, 'utf-8'): bytes to code points.
\* Covers one- and two-byte sequences (the sample contents use no lead byte
\* of a longer form); every byte that starts no well-formed sequence
\* decodes to U+FFFD.
RECURSIVE Utf8Decode(_)
Utf8Decode(b) ==
    IF b = <<>> THEN <<>>
    ELSE IF b[1] < 128 THEN <<b[1]>> \o Utf8Decode(Tail(b))
    ELSE IF b[1] \in 194..223 /\ Len(b) >= 2 /\ b[2] \in 128..191
         THEN <<(b[1] - 192) * 64 + (b[2] - 128)>> \o Utf8Decode(Tail(Tail(b)))
    ELSE <<65533>> \o Utf8Decode(Tail(b))

\* ------------------------------------------------------ Object Store Client
AllowedChars ==
    {"a","b","c","d","e","f","g","h","i","j","k","l","m","n","o","p","q","r",
     "s","t","u","v","w","x","y","z","A","B","C","D","E","F","G","H","I","J",
     "K","L","M","N","O","P","Q","R","S","T","U","V","W","X","Y","Z","0","1",
     "2","3","4","5","6","7","8","9",".","-"}

\* Variant: characters outside the class are dropped.
SanitizeName_Strip(name) ==
    SelectSeq(name, LAMBDA c : c \in AllowedChars)

\* originalName.replace(/[^a-zA-Z0-9.-]/g, '_')
SanitizeName(name) ==
    [i \in 1..Len(name) |-> IF name[i] \in AllowedChars THEN name[i] ELSE "_"]

\* A number in a template string: its decimal digits.
RECURSIVE Decimal(_)
Decimal(n) ==
    LET digit == <<"0", "1", "2", "3", "4", "5", "6", "7", "8", "9">>[(n % 10) + 1]
    IN  IF n < 10 THEN <<digit>> ELSE Decimal(n \div 10) \o <<digit>>

\* Variant: the key is built without the random part.
generateS3Key_NoRandom(originalName, timestamp, randomString) ==
    <<"documents/">> \o Decimal(timestamp) \o <<"-">> \o <<"-">>
        \o SanitizeName(originalName)

\* `documents/${timestamp}-${randomString}-${sanitizedName}`, as the sequence
\* of its characters after the prefix. timestamp is Date.now(), randomString
\* is Math.random().toString(36).substring(2, 15): characters of [0-9a-z],
\* none when Math.random() gives 0.
generateS3Key(originalName, timestamp, randomString) ==
    <<"documents/">> \o Decimal(timestamp) \o <<"-">> \o randomString \o <<"-">>
        \o SanitizeName(originalName)

\* uploadFile: PutObject, any failure rewrapped.
uploadFile(key, body, faults) ==
    IF "s3put" \in faults
    THEN [ok |-> FALSE, err |-> <<"Failed to upload file to S3", "NetworkError">>,
          s3 |-> s3]
    ELSE [ok |-> TRUE, err |-> <<>>, s3 |-> (key :> body) @@ s3]

\* Variant: the missing body is thrown past the catch, without the wrapper.
downloadFile_BareNoBody(key, faults) ==
    IF "s3get" \in faults
    THEN [ok |-> FALSE, text |-> NoText,
          err |-> <<"Failed to download file from S3", "NetworkError">>]
    ELSE IF key \notin DOMAIN s3
    THEN [ok |-> FALSE, text |-> NoText,
          err |-> <<"Failed to download file from S3", "NoSuchKey">>]
    ELSE IF "s3nobody" \in faults
    THEN [ok |-> FALSE, text |-> NoText, err |-> <<"No content in S3 response">>]
    ELSE IF "s3stream" \in faults
    THEN [ok |-> FALSE, text |-> NoText, err |-> <<"StreamError">>]
    ELSE [ok |-> TRUE, text |-> Utf8Decode(s3[key]), err |-> <<>>]

\* downloadFile: GetObject; a failure of send and a missing body are rewrapped
\* inside the try, a stream error rejects the returned promise as it is.
downloadFile(key, faults) ==
    IF "s3get" \in faults
    THEN [ok |-> FALSE, text |-> NoText,
          err |-> <<"Failed to download file from S3", "NetworkError">>]
    ELSE IF key \notin DOMAIN s3
    THEN [ok |-> FALSE, text |-> NoText,
          err |-> <<"Failed to download file from S3", "NoSuchKey">>]
    ELSE IF "s3nobody" \in faults
    THEN [ok |-> FALSE, text |-> NoText,
          err |-> <<"Failed to download file from S3", "No content in S3 response">>]
    ELSE IF "s3stream" \in faults
    THEN [ok |-> FALSE, text |-> NoText, err |-> <<"StreamError">>]
    ELSE [ok |-> TRUE, text |-> Utf8Decode(s3[key]), err |-> <<>>]

\* deleteFile: DeleteObject, any failure rewrapped.
deleteFile(key, faults) ==
    IF "s3delete" \in faults
    THEN [ok |-> FALSE, err |-> <<"Failed to delete file from S3", "NetworkError">>,
          s3 |-> s3]
    ELSE [ok |-> TRUE, err |-> <<>>, s3 |-> Without(s3, key)]

\* ------------------------------------------------------------- filesystem
\* fs.readFile(path): fails when the file is absent or unreadable.
readFile(path, faults) ==
    IF "readFile" \in faults
    THEN [ok |-> FALSE, data |-> NoBuffer, err |-> <<"EACCES">>]
    ELSE IF files[path] = NoFile
    THEN [ok |-> FALSE, data |-> NoBuffer, err |-> <<"ENOENT">>]
    ELSE [ok |-> TRUE, data |-> files[path], err |-> <<>>]

\* fs.unlink(path): fails when the file is absent or cannot be removed.
unlink(path, faults) ==
    IF "unlink" \in faults \/ files[path] = NoFile
    THEN [ok |-> FALSE, files |-> files]
    ELSE [ok |-> TRUE, files |-> [files EXCEPT ![path] = NoFile]]

Call(fn, arg, ok) == [fn |-> fn, arg |-> arg, ok |-> ok]

\* --------------------------------------------------------- Document entity
\* Variant: the path column defaults to '' instead of being left undefined.
Document_EmptyPath(name) ==
    [name |-> name, path |-> EmptyPath, buffer |-> NoBuffer, s3Key |-> NoKey,
     createdAt |-> NoDate]

\* new Document() with name set; path, buffer and s3Key are optional columns,
\* createdAt is filled in by the store.
Document(name) ==
    [name |-> name, path |-> NoPath, buffer |-> NoBuffer, s3Key |-> NoKey,
     createdAt |-> NoDate]

NoDocument == Document(<<>>)

\* ---------------------------------------------------------- Metadata Store
\* @CreateDateColumn: the store sets createdAt when the record is inserted.
Inserted(document, now) == [document EXCEPT !.createdAt = now]

\* documentRepo.save(document): insert under a fresh id.
save(document, faults, now) ==
    IF "save" \in faults
    THEN [ok |-> FALSE, err |-> <<"Database error">>, repo |-> repo]
    ELSE [ok |-> TRUE, err |-> <<>>,
          repo |-> (nextId :> Inserted(document, now)) @@ repo]

\* Variant: the delete resolves and leaves the record in the store.
repoDelete_Keep(id, faults) ==
    IF "delete" \in faults
    THEN [ok |-> FALSE, err |-> <<"Database error">>, repo |-> repo]
    ELSE [ok |-> TRUE, err |-> <<>>, repo |-> repo]

\* documentRepo.delete(id): resolves whether or not a record was removed.
repoDelete(id, faults) ==
    IF "delete" \in faults
    THEN [ok |-> FALSE, err |-> <<"Database error">>, repo |-> repo]
    ELSE [ok |-> TRUE, err |-> <<>>, repo |-> Without(repo, id)]

\* -------------------------------------------------------- Document Service
\* The external calls that may fail during one call of the service. Only the
\* calls the active storage can lead to are offered: a failure of a call that
\* is never made changes nothing.
CreateFaults ==
    IF isS3Storage THEN {"readFile", "s3put", "save"}
    ELSE IF isMongoDBStorage THEN {"readFile", "save"}
    ELSE {"save"}

\* One GetObject exchange fails in at most one way: send rejects, the response
\* has no body, or the body stream errors.
DownloadFaults == {{}, {"s3get"}, {"s3nobody"}, {"s3stream"}}

GetFaults ==
    {a \cup b : a \in SUBSET {"find", "readFile"},
                b \in IF isS3Storage THEN DownloadFaults ELSE {{}}}

DeleteFaults ==
    {"find", "delete"} \cup (IF isS3Storage THEN {"s3delete"} ELSE {})
                       \cup (IF isMongoDBStorage THEN {} ELSE {"unlink"})

Failure(err, calls) ==
    [status |-> "error", error |-> err, calls |-> calls,
     document |-> NoDocument, repo |-> repo, s3 |-> s3]

\* Variant: the file at path is preferred over a supplied fileBuffer.
SourceBuffer_PathFirst(path, fileBuffer, faults, storageName) ==
    IF Truthy(path)
    THEN LET r == readFile(path, faults)
         IN  [ok |-> r.ok, buffer |-> r.data, err |-> r.err,
              calls |-> <<Call("readFile", path, r.ok)>>]
    ELSE IF fileBuffer # NoBuffer
    THEN [ok |-> TRUE, buffer |-> fileBuffer, err |-> <<>>, calls |-> <<>>]
    ELSE [ok |-> FALSE, buffer |-> NoBuffer, calls |-> <<>>,
          err |-> <<"Either path or fileBuffer must be provided for " \o storageName \o " storage">>]

\* Variant: with neither input an empty buffer is stored instead of throwing.
SourceBuffer_DefaultEmpty(path, fileBuffer, faults, storageName) ==
    IF fileBuffer # NoBuffer
    THEN [ok |-> TRUE, buffer |-> fileBuffer, err |-> <<>>, calls |-> <<>>]
    ELSE IF Truthy(path)
    THEN LET r == readFile(path, faults)
         IN  [ok |-> r.ok, buffer |-> r.data, err |-> r.err,
              calls |-> <<Call("readFile", path, r.ok)>>]
    ELSE [ok |-> TRUE, buffer |-> <<>>, err |-> <<>>, calls |-> <<>>]

\* The buffer the s3 and mongodb branches store: fileBuffer if given, else
\* the file at path, else an error naming the storage.
SourceBuffer(path, fileBuffer, faults, storageName) ==
    IF fileBuffer # NoBuffer
    THEN [ok |-> TRUE, buffer |-> fileBuffer, err |-> <<>>, calls |-> <<>>]
    ELSE IF Truthy(path)
    THEN LET r == readFile(path, faults)
         IN  [ok |-> r.ok, buffer |-> r.data, err |-> r.err,
              calls |-> <<Call("readFile", path, r.ok)>>]
    ELSE [ok |-> FALSE, buffer |-> NoBuffer, calls |-> <<>>,
          err |-> <<"Either path or fileBuffer must be provided for " \o storageName \o " storage">>]

\* The record each branch builds once its content is in hand.
S3Document(name, s3Key) == [Document(name) EXCEPT !.s3Key = s3Key]

MongoDocument(name, buffer) == [Document(name) EXCEPT !.buffer = buffer]

FilesystemDocument(name, path) == [Document(name) EXCEPT !.path = path]

\* await this.documentRepo.save(document); return document;
SaveAndReturn(document, faults, calls, bucket, now) ==
    LET sv == save(document, faults, now)
        cs == Append(calls, Call("save", nextId, sv.ok))
    IN  IF sv.ok
        THEN [status |-> "ok", error |-> <<>>, calls |-> cs,
              document |-> Inserted(document, now), repo |-> sv.repo, s3 |-> bucket]
        ELSE [status |-> "error", error |-> sv.err, calls |-> cs,
              document |-> NoDocument, repo |-> repo, s3 |-> bucket]

createDocument(name, path, fileBuffer, faults, timestamp, randomString, now) ==
    IF isS3Storage
    THEN LET src == SourceBuffer(path, fileBuffer, faults, "S3")
         IN  IF ~src.ok THEN Failure(src.err, src.calls)
             ELSE LET s3Key == generateS3Key(name, timestamp, randomString)
                      up == uploadFile(s3Key, src.buffer, faults)
                      cs == Append(src.calls, Call("s3put", s3Key, up.ok))
                  IN  IF ~up.ok THEN Failure(up.err, cs)
                      ELSE SaveAndReturn(S3Document(name, s3Key), faults, cs, up.s3, now)
    ELSE IF isMongoDBStorage
    THEN LET src == SourceBuffer(path, fileBuffer, faults, "MongoDB")
         IN  IF ~src.ok THEN Failure(src.err, src.calls)
             ELSE SaveAndReturn(MongoDocument(name, src.buffer), faults, src.calls, s3, now)
    ELSE IF ~Truthy(path)
         THEN Failure(<<"Path must be provided for filesystem storage">>, <<>>)
         ELSE SaveAndReturn(FilesystemDocument(name, path), faults, <<>>, s3, now)

\* Variant: a blank Document stands in for a record that was not found.
getDocumentById_Blank(id, faults) ==
    IF id = MalformedId
    THEN [found |-> TRUE, document |-> NoDocument, calls |-> <<>>]
    ELSE IF "find" \in faults
    THEN [found |-> TRUE, document |-> NoDocument,
          calls |-> <<Call("findOneBy", id, FALSE)>>]
    ELSE IF id \notin DOMAIN repo
    THEN [found |-> TRUE, document |-> NoDocument,
          calls |-> <<Call("findOneBy", id, TRUE)>>]
    ELSE [found |-> TRUE, document |-> repo[id],
          calls |-> <<Call("findOneBy", id, TRUE)>>]

\* new ObjectId(id) throws on a malformed id, findOneBy may reject: both are
\* caught and give null, like an id that has no record.
getDocumentById(id, faults) ==
    IF id = MalformedId
    THEN [found |-> FALSE, document |-> NoDocument, calls |-> <<>>]
    ELSE IF "find" \in faults
    THEN [found |-> FALSE, document |-> NoDocument,
          calls |-> <<Call("findOneBy", id, FALSE)>>]
    ELSE IF id \notin DOMAIN repo
    THEN [found |-> FALSE, document |-> NoDocument,
          calls |-> <<Call("findOneBy", id, TRUE)>>]
    ELSE [found |-> TRUE, document |-> repo[id],
          calls |-> <<Call("findOneBy", id, TRUE)>>]

\* Variant: the store answers oldest first.
findOrdered_Ascending(store) ==
    LET n == Cardinality(DOMAIN store)
    IN  {[i \in 1..n |-> [id |-> s[i], createdAt |-> store[s[i]].createdAt]] :
            s \in {t \in [1..n -> DOMAIN store] :
                      /\ \A i, j \in 1..n : i # j => t[i] # t[j]
                      /\ \A i, j \in 1..n :
                            i < j => store[t[i]].createdAt <= store[t[j]].createdAt}}

\* documentRepo.find({ order: { createdAt: 'DESC' } }): every record once, a
\* later createdAt before an earlier one; the store is free in the order of
\* records with equal createdAt, so this is the set of possible answers.
findOrdered(store) ==
    LET n == Cardinality(DOMAIN store)
    IN  {[i \in 1..n |-> [id |-> s[i], createdAt |-> store[s[i]].createdAt]] :
            s \in {t \in [1..n -> DOMAIN store] :
                      /\ \A i, j \in 1..n : i # j => t[i] # t[j]
                      /\ \A i, j \in 1..n :
                            i < j => store[t[i]].createdAt >= store[t[j]].createdAt}}

\* getAllDocuments has no try/catch: a rejected find is thrown as it is.
getAllDocuments(faults) ==
    IF "find" \in faults
    THEN [status |-> "error", error |-> <<"Database error">>, results |-> {<<>>},
          calls |-> <<Call("find", MalformedId, FALSE)>>]
    ELSE [status |-> "ok", error |-> <<>>, results |-> findOrdered(repo),
          calls |-> <<Call("find", MalformedId, TRUE)>>]

\* Variant: the populated field alone picks the branch, whatever storage is active.
ContentLocation_ByField(document) ==
    IF document.s3Key # NoKey THEN "s3Key"
    ELSE IF document.buffer # NoBuffer THEN "buffer"
    ELSE IF Truthy(document.path) THEN "path"
    ELSE "none"

\* Which branch of the retrieval chain a record takes under the active storage.
ContentLocation(document) ==
    IF isS3Storage /\ document.s3Key # NoKey THEN "s3Key"
    ELSE IF isMongoDBStorage /\ document.buffer # NoBuffer THEN "buffer"
    ELSE IF Truthy(document.path) THEN "path"
    ELSE "none"

\* The message thrown when no branch of the retrieval chain applies.
NoValidLocation == "Document has no valid storage location (s3Key, buffer, or path)"

\* The message the catch of getDocumentContent puts around whatever the try threw.
WrapReadError(err) == <<"Failed to read document content">> \o err

\* The retrieval chain of getDocumentContent on the record it found; every
\* failure inside the try is rewrapped by the catch.
ReadContent(document, faults, calls) ==
    LET where == ContentLocation(document)
    IN  IF where = "s3Key"
        THEN LET r == downloadFile(document.s3Key, faults)
                 cs == Append(calls, Call("s3get", document.s3Key, r.ok))
             IN  IF r.ok
                 THEN [status |-> "ok", error |-> <<>>, content |-> r.text, calls |-> cs]
                 ELSE [status |-> "error", error |-> WrapReadError(r.err),
                       content |-> NoText, calls |-> cs]
        ELSE IF where = "buffer"
        THEN [status |-> "ok", error |-> <<>>,
              content |-> Utf8Decode(document.buffer), calls |-> calls]
        ELSE IF where = "path"
        THEN LET r == readFile(document.path, faults)
                 cs == Append(calls, Call("readFile", document.path, r.ok))
             IN  IF r.ok
                 THEN [status |-> "ok", error |-> <<>>,
                       content |-> Utf8Decode(r.data), calls |-> cs]
                 ELSE [status |-> "error", error |-> WrapReadError(r.err),
                       content |-> NoText, calls |-> cs]
        ELSE [status |-> "error",
              error |-> WrapReadError(<<NoValidLocation>>),
              content |-> NoText, calls |-> calls]

getDocumentContent(id, faults) ==
    LET lookup == getDocumentById(id, faults)
    IN  IF ~lookup.found
        THEN [status |-> "error", error |-> <<"Document not found">>,
              content |-> NoText, calls |-> lookup.calls]
        ELSE ReadContent(lookup.document, faults, lookup.calls)

\* Variant: no remote delete; the object of an s3 record is left in the bucket.
RemovalLocation_NoRemote(document) ==
    IF isMongoDBStorage THEN "none"
    ELSE IF Truthy(document.path) THEN "path"
    ELSE "none"

\* Variant: the populated field alone picks what is removed, whatever storage is active.
RemovalLocation_ByField(document) ==
    IF document.s3Key # NoKey THEN "s3Key"
    ELSE IF Truthy(document.path) THEN "path"
    ELSE "none"

\* Which content removal deleteDocument performs under the active storage.
RemovalLocation(document) ==
    IF isS3Storage /\ document.s3Key # NoKey THEN "s3Key"
    ELSE IF isMongoDBStorage THEN "none"
    ELSE IF Truthy(document.path) THEN "path"
    ELSE "none"

WrapDeleteError(err) == <<"Failed to delete document">> \o err

\* Variant: a failed metadata delete is dropped and the call resolves.
DeleteRecord_Silent(id, faults, calls, bucket, disk) ==
    LET d == repoDelete(id, faults)
        cs == Append(calls, Call("delete", id, d.ok))
    IN  [status |-> "ok", error |-> <<>>, calls |-> cs,
         repo |-> d.repo, s3 |-> bucket, files |-> disk]

\* await this.documentRepo.delete(document.id) and the end of deleteDocument.
DeleteRecord(id, faults, calls, bucket, disk) ==
    LET d == repoDelete(id, faults)
        cs == Append(calls, Call("delete", id, d.ok))
    IN  IF d.ok
        THEN [status |-> "ok", error |-> <<>>, calls |-> cs,
              repo |-> d.repo, s3 |-> bucket, files |-> disk]
        ELSE [status |-> "error", error |-> WrapDeleteError(d.err), calls |-> cs,
              repo |-> repo, s3 |-> bucket, files |-> disk]

\* Variant: a failed remote delete is dropped like a failed unlink.
RemoteRemoval_Swallow(id, document, faults, calls) ==
    LET r == deleteFile(document.s3Key, faults)
        cs == Append(calls, Call("s3delete", document.s3Key, r.ok))
    IN  DeleteRecord(id, faults, cs, r.s3, files)

\* Variant: the call returns after the remote delete, the record is left alone.
RemoteRemoval_SkipRecord(id, document, faults, calls) ==
    LET r == deleteFile(document.s3Key, faults)
        cs == Append(calls, Call("s3delete", document.s3Key, r.ok))
    IN  IF ~r.ok
        THEN [status |-> "error", error |-> WrapDeleteError(r.err),
              calls |-> cs, repo |-> repo, s3 |-> s3, files |-> files]
        ELSE [status |-> "ok", error |-> <<>>,
              calls |-> cs, repo |-> repo, s3 |-> r.s3, files |-> files]

\* The s3 branch: a failed remote delete is thrown into the outer catch.
RemoteRemoval(id, document, faults, calls) ==
    LET r == deleteFile(document.s3Key, faults)
        cs == Append(calls, Call("s3delete", document.s3Key, r.ok))
    IN  IF ~r.ok
        THEN [status |-> "error", error |-> WrapDeleteError(r.err),
              calls |-> cs, repo |-> repo, s3 |-> s3, files |-> files]
        ELSE DeleteRecord(id, faults, cs, r.s3, files)

\* Variant: a failed unlink is tried once more before it is dropped.
DiskRemoval_Retry(id, document, faults, calls) ==
    LET r == unlink(document.path, faults)
        cs == Append(calls, Call("unlink", document.path, r.ok))
    IN  IF r.ok
        THEN DeleteRecord(id, faults, cs, s3, r.files)
        ELSE DeleteRecord(id, faults, Append(cs, Call("unlink", document.path, FALSE)),
                          s3, r.files)

\* Variant: a failed unlink is thrown into the outer catch like a failed remote delete.
DiskRemoval_Fatal(id, document, faults, calls) ==
    LET r == unlink(document.path, faults)
        cs == Append(calls, Call("unlink", document.path, r.ok))
    IN  IF ~r.ok
        THEN [status |-> "error", error |-> WrapDeleteError(<<"ENOENT">>),
              calls |-> cs, repo |-> repo, s3 |-> s3, files |-> files]
        ELSE DeleteRecord(id, faults, cs, s3, r.files)

\* The filesystem branch: a failed unlink is caught, warned about and dropped.
DiskRemoval(id, document, faults, calls) ==
    LET r == unlink(document.path, faults)
        cs == Append(calls, Call("unlink", document.path, r.ok))
    IN  DeleteRecord(id, faults, cs, s3, r.files)

deleteDocument(id, faults) ==
    LET lookup == getDocumentById(id, faults)
        document == lookup.document
        where == RemovalLocation(document)
    IN  IF ~lookup.found
        THEN [status |-> "error", error |-> <<"Document not found">>,
              calls |-> lookup.calls, repo |-> repo, s3 |-> s3, files |-> files]
        ELSE IF where = "s3Key" THEN RemoteRemoval(id, document, faults, lookup.calls)
        ELSE IF where = "path" THEN DiskRemoval(id, document, faults, lookup.calls)
        ELSE DeleteRecord(id, faults, lookup.calls, s3, files)

\* ------------------------------------------------------ upload over HTTP
\* A request without a file part: multer leaves request.file undefined.
NoUpload == [originalname |-> <<>>, path |-> NoPath, buffer |-> NoBuffer]

\* upload.single('file') with multer.diskStorage: the file part is written
\* to the uploads directory and request.file carries its name and path; the
\* buffer field is filled by memory storage only and stays undefined here.
diskStorage(originalname, path) ==
    [originalname |-> originalname, path |-> path, buffer |-> NoBuffer]

\* DocumentController.uploadDocument: s3 and mongodb pass file.buffer and no
\* path, every other storage type passes file.path.
uploadDocument(file, faults, timestamp, randomString, now) ==
    IF file = NoUpload
    THEN Failure(<<"No file uploaded">>, <<>>)
    ELSE IF isS3Storage \/ isMongoDBStorage
    THEN createDocument(file.originalname, NoPath, file.buffer, faults,
                        timestamp, randomString, now)
    ELSE createDocument(file.originalname, file.path, NoBuffer, faults,
                        timestamp, randomString, now)

\* ------------------------------------------------------------ state machine
\* What the caller of the last DocumentService call supplied and observed.
Observation(kind, id, path, buffer, status, error, content, calls) ==
    [kind |-> kind, id |-> id, path |-> path, buffer |-> buffer,
     status |-> status, error |-> error, content |-> content, calls |-> calls]

Idle == Observation("none", MalformedId, NoPath, NoBuffer, "ok", <<>>, NoText, <<>>)

\* What createDocument was given for a record: the storage active at the time
\* and the bytes supplied as its content (the buffer where the branch takes a
\* buffer, else the content of the file at path, NoFile if there is none).
Supplied(path, fileBuffer) ==
    [storage |-> storageType,
     bytes |-> IF (isS3Storage \/ isMongoDBStorage) /\ fileBuffer # NoBuffer
               THEN fileBuffer
               ELSE IF path \in Paths THEN files[path] ELSE NoFile]

Init ==
    /\ storageType \in {ResolveStorageType(env) : env \in EnvValues}
    /\ repo = EmptyMap
    /\ s3 = EmptyMap
    /\ files \in [Paths -> Contents \cup {NoFile}]
    /\ nextId = 1
    /\ created = EmptyMap
    /\ op = Idle

\* The process is started again with another STORAGE_TYPE in its environment.
Restart ==
    \E env \in EnvValues :
        /\ storageType' = ResolveStorageType(env)
        /\ op' = Idle
        /\ UNCHANGED <<repo, s3, files, nextId, created>>

Create ==
    \E name \in Names, path \in Paths \cup {NoPath, EmptyPath},
       fileBuffer \in Contents \cup {NoBuffer}, faults \in SUBSET CreateFaults,
       timestamp \in Times, randomString \in Rands, now \in Dates :
        LET r == createDocument(name, path, fileBuffer, faults, timestamp, randomString, now)
        IN  /\ nextId <= MaxDocs
            /\ repo' = r.repo
            /\ s3' = r.s3
            /\ nextId' = IF r.status = "ok" THEN nextId + 1 ELSE nextId
            /\ created' = IF r.status = "ok"
                          THEN (nextId :> Supplied(path, fileBuffer)) @@ created
                          ELSE created
            /\ op' = Observation("create",
                                 IF r.status = "ok" THEN nextId ELSE MalformedId,
                                 path, fileBuffer, r.status, r.error, NoText, r.calls)
            /\ UNCHANGED <<storageType, files>>

\* Variant: a file that was read is removed from the disk.
GetContent_Consume ==
    \E id \in Ids \cup {MalformedId}, faults \in GetFaults :
        LET r == getDocumentContent(id, faults)
        IN  /\ op' = Observation("get", id, NoPath, NoBuffer,
                                 r.status, r.error, r.content, r.calls)
            /\ files' = IF \E i \in DOMAIN r.calls : r.calls[i].fn = "readFile"
                        THEN [q \in Paths |-> NoFile] ELSE files
            /\ UNCHANGED <<storageType, repo, s3, nextId, created>>

GetContent ==
    \E id \in Ids \cup {MalformedId}, faults \in GetFaults :
        LET r == getDocumentContent(id, faults)
        IN  /\ op' = Observation("get", id, NoPath, NoBuffer,
                                 r.status, r.error, r.content, r.calls)
            /\ UNCHANGED <<storageType, repo, s3, files, nextId, created>>

Delete ==
    \E id \in Ids \cup {MalformedId}, faults \in SUBSET DeleteFaults :
        LET r == deleteDocument(id, faults)
        IN  /\ repo' = r.repo
            /\ s3' = r.s3
            /\ files' = r.files
            /\ created' = IF id \in DOMAIN r.repo THEN created ELSE Without(created, id)
            /\ op' = Observation("delete", id, NoPath, NoBuffer,
                                 r.status, r.error, NoText, r.calls)
            /\ UNCHANGED <<storageType, nextId>>

GetAll ==
    \E faults \in SUBSET {"find"} :
        LET r == getAllDocuments(faults)
        IN  \E documents \in r.results :
                /\ op' = Observation("list", MalformedId, NoPath, NoBuffer,
                                     r.status, r.error, documents, r.calls)
                /\ UNCHANGED <<storageType, repo, s3, files, nextId, created>>

Next == Restart \/ Create \/ GetContent \/ Delete \/ GetAll

Spec == Init /\ [][Next]_vars

TypeOK ==
    /\ storageType \in {"filesystem", "mongodb", "s3", "S3"}
    /\ DOMAIN repo \subseteq Ids
    /\ nextId \in 1..(MaxDocs + 1)
    /\ DOMAIN created = DOMAIN repo
    /\ op.kind \in {"none", "create", "get", "delete", "list"}
    /\ op.status \in {"ok", "error"}

\* ------------------------------------------------- the service behind HTTP
\* POST /api/document/upload. The file part, when there is one, is on disk
\* before the controller runs; createDocument reads no file in the calls the
\* controller makes, so it is evaluated on the state before the write.
Upload ==
    \E name \in Names, content \in Contents \cup {NoFile}, path \in Paths,
       faults \in SUBSET CreateFaults,
       timestamp \in Times, randomString \in Rands, now \in Dates :
        LET file == IF content = NoFile THEN NoUpload ELSE diskStorage(name, path)
            r == uploadDocument(file, faults, timestamp, randomString, now)
        IN  /\ nextId <= MaxDocs
            /\ files' = IF content = NoFile THEN files
                        ELSE [files EXCEPT ![path] = content]
            /\ repo' = r.repo
            /\ s3' = r.s3
            /\ nextId' = IF r.status = "ok" THEN nextId + 1 ELSE nextId
            /\ created' = IF r.status = "ok"
                          THEN (nextId :> [storage |-> storageType, bytes |-> content])
                               @@ created
                          ELSE created
            /\ op' = Observation("upload",
                                 IF r.status = "ok" THEN nextId ELSE MalformedId,
                                 file.path, file.buffer, r.status, r.error, NoText, r.calls)
            /\ UNCHANGED storageType

\* The routes of the HTTP API: upload, list, content, delete.
NextUpload == Restart \/ Upload \/ GetAll \/ GetContent \/ Delete

SpecUpload == Init /\ [][NextUpload]_vars

\* ------------------------------------------------- listing several records
\* Records saved at several dates, listed and deleted. The clock of the store
\* is not assumed to advance between two saves.
MaxListed == 3

MaxDate == 2

ListCreate ==
    \E name \in Names, path \in Paths, fileBuffer \in {<<195, 169>>},
       timestamp \in Times, randomString \in Rands, now \in 1..MaxDate :
        LET r == createDocument(name, path, fileBuffer, {}, timestamp, randomString, now)
        IN  /\ nextId <= MaxListed
            /\ repo' = r.repo
            /\ s3' = r.s3
            /\ nextId' = IF r.status = "ok" THEN nextId + 1 ELSE nextId
            /\ created' = IF r.status = "ok"
                          THEN (nextId :> Supplied(path, fileBuffer)) @@ created
                          ELSE created
            /\ op' = Observation("create",
                                 IF r.status = "ok" THEN nextId ELSE MalformedId,
                                 path, fileBuffer, r.status, r.error, NoText, r.calls)
            /\ UNCHANGED <<storageType, files>>

ListDelete ==
    \E id \in 1..MaxListed :
        LET r == deleteDocument(id, {})
        IN  /\ repo' = r.repo
            /\ s3' = r.s3
            /\ files' = r.files
            /\ created' = IF id \in DOMAIN r.repo THEN created ELSE Without(created, id)
            /\ op' = Observation("delete", id, NoPath, NoBuffer,
                                 r.status, r.error, NoText, r.calls)
            /\ UNCHANGED <<storageType, nextId>>

NextList == ListCreate \/ GetAll \/ ListDelete

SpecList == Init /\ [][NextList]_vars

\* ------------------------------------------- deleteDocument calls in flight
\* deleteDocument is async: between its awaits (lookup, content removal,
\* metadata delete) other calls of the service run. In SpecRace, op maps each
\* caller to its deleteDocument call in flight instead of holding the last call.
MaxCallers == 2

Callers == 1..MaxCallers

InFlight(pc, id, document, status, error, calls, affected) ==
    [pc |-> pc, id |-> id, document |-> document, status |-> status,
     error |-> error, calls |-> calls, affected |-> affected]

\* One record, as createDocument leaves it under storage `made`, in a process
\* started with `env`.
StoredOne(env, made, name, bytes, path, timestamp, randomString, now) ==
    LET s3Key == generateS3Key(name, timestamp, randomString)
    IN  /\ storageType = ResolveStorageType(env)
        /\ repo = (1 :> Inserted(IF made = "s3" THEN S3Document(name, s3Key)
                                 ELSE IF made = "mongodb" THEN MongoDocument(name, bytes)
                                 ELSE FilesystemDocument(name, path), now))
        /\ s3 = IF made = "s3" THEN (s3Key :> bytes) ELSE EmptyMap
        /\ files = [q \in Paths |-> bytes]
        /\ nextId = 2
        /\ created = (1 :> [storage |-> made, bytes |-> bytes])

\* One record under any storage and the callers about to call deleteDocument.
InitRace ==
    \E env \in EnvValues, made \in {"s3", "mongodb", "filesystem"},
       name \in Names, bytes \in Contents, path \in Paths,
       timestamp \in Times, randomString \in Rands, now \in Dates :
        /\ StoredOne(env, made, name, bytes, path, timestamp, randomString, now)
        /\ op \in [Callers -> {InFlight("start", id, NoDocument, "ok", <<>>, <<>>, 0) :
                                 id \in Ids}]

\* const document = await this.getDocumentById(id); if (!document) throw
RaceLookup ==
    \E p \in Callers, faults \in SUBSET {"find"} :
        LET lookup == getDocumentById(op[p].id, faults)
        IN  /\ op[p].pc = "start"
            /\ op' = [op EXCEPT ![p] =
                        IF lookup.found
                        THEN InFlight("found", @.id, lookup.document, "ok", <<>>,
                                      lookup.calls, 0)
                        ELSE InFlight("done", @.id, NoDocument, "error",
                                      <<"Document not found">>, lookup.calls, 0)]
            /\ UNCHANGED <<storageType, repo, s3, files, nextId, created>>

\* The branch on the storage type: await deleteFile (fatal), nothing for
\* mongodb, await unlink (swallowed).
RaceRemoveContent ==
    \E p \in Callers, faults \in SUBSET DeleteFaults :
        LET document == op[p].document
            where == RemovalLocation(document)
            remote == deleteFile(document.s3Key, faults)
            disk == unlink(document.path, faults)
        IN  /\ op[p].pc = "found"
            /\ IF where = "s3Key"
               THEN /\ s3' = remote.s3
                    /\ files' = files
                    /\ op' = [op EXCEPT ![p] =
                                IF remote.ok
                                THEN [@ EXCEPT !.pc = "located",
                                        !.calls = Append(@, Call("s3delete", document.s3Key, TRUE))]
                                ELSE [@ EXCEPT !.pc = "done", !.status = "error",
                                        !.error = WrapDeleteError(remote.err),
                                        !.calls = Append(@, Call("s3delete", document.s3Key, FALSE))]]
               ELSE IF where = "path"
               THEN /\ s3' = s3
                    /\ files' = disk.files
                    /\ op' = [op EXCEPT ![p] =
                                [@ EXCEPT !.pc = "located",
                                   !.calls = Append(@, Call("unlink", document.path, disk.ok))]]
               ELSE /\ s3' = s3
                    /\ files' = files
                    /\ op' = [op EXCEPT ![p].pc = "located"]
            /\ UNCHANGED <<storageType, repo, nextId, created>>

\* await this.documentRepo.delete(document.id); return. affected is the number
\* of records this delete removed, which the store reports and the code drops.
RaceRemoveRecord ==
    \E p \in Callers, faults \in SUBSET {"delete"} :
        LET r == DeleteRecord(op[p].id, faults, op[p].calls, s3, files)
        IN  /\ op[p].pc = "located"
            /\ repo' = r.repo
            /\ created' = IF op[p].id \in DOMAIN r.repo THEN created
                          ELSE Without(created, op[p].id)
            /\ op' = [op EXCEPT ![p] =
                        InFlight("done", @.id, @.document, r.status, r.error, r.calls,
                                 Cardinality(DOMAIN repo) - Cardinality(DOMAIN r.repo))]
            /\ UNCHANGED <<storageType, s3, files, nextId>>

NextRace == RaceLookup \/ RaceRemoveContent \/ RaceRemoveRecord

SpecRace == InitRace /\ [][NextRace]_vars

\* ----------------------------------------------------- two generated keys
\* generateS3Key is a function of the name it is given, the clock and the
\* random number it draws. In SpecKey, op holds what two calls are given and
\* observe, and the keys they have returned so far.
MaxNameLen == 2

KeyChars == {"a", "-", " ", "_"}

KeyNames == UNION {[1..n -> KeyChars] : n \in 0..MaxNameLen}

KeyTimes == {9, 10}

KeyRands == {<<>>, <<"z">>}

KeyInputs == [originalName : KeyNames, timestamp : KeyTimes, randomString : KeyRands]

InitKey ==
    /\ storageType = "s3"
    /\ repo = EmptyMap
    /\ s3 = EmptyMap
    /\ files = [q \in Paths |-> NoFile]
    /\ nextId = 1
    /\ created = EmptyMap
    /\ op \in [inputs : [1..2 -> KeyInputs], keys : {<<>>}]

GenerateKey ==
    LET call == op.inputs[Len(op.keys) + 1]
    IN  /\ Len(op.keys) < 2
        /\ op' = [op EXCEPT !.keys =
                     Append(@, generateS3Key(call.originalName, call.timestamp,
                                             call.randomString))]
        /\ UNCHANGED <<storageType, repo, s3, files, nextId, created>>

NextKey == GenerateKey

SpecKey == InitKey /\ [][NextKey]_vars

\* ------------------------------ getDocumentContent racing deleteDocument
\* One getDocumentContent call, caller Reader, in flight together with the
\* deleteDocument calls, all on the one record, which was created under the
\* storage that is active. The reader's external calls never fail.
Reader == 0

Reading(pc, id, document, status, error, content, calls) ==
    [pc |-> pc, id |-> id, document |-> document, status |-> status,
     error |-> error, content |-> content, calls |-> calls]

InitReadRace ==
    \E env \in EnvValues, made \in {"s3", "mongodb", "filesystem"},
       name \in Names, bytes \in Contents, path \in Paths,
       timestamp \in Times, randomString \in Rands, now \in Dates :
        /\ BackendOf(ResolveStorageType(env)) = made
        /\ StoredOne(env, made, name, bytes, path, timestamp, randomString, now)
        /\ op = (Reader :> Reading("start", 1, NoDocument, "ok", <<>>, NoText, <<>>))
                @@ [p \in Callers |-> InFlight("start", 1, NoDocument, "ok", <<>>, <<>>, 0)]

\* const document = await this.getDocumentById(id); if (!document) throw
ReaderLookup ==
    LET lookup == getDocumentById(op[Reader].id, {})
    IN  /\ op[Reader].pc = "start"
        /\ op' = [op EXCEPT ![Reader] =
                    IF lookup.found
                    THEN Reading("found", @.id, lookup.document, "ok", <<>>, NoText,
                                 lookup.calls)
                    ELSE Reading("done", @.id, NoDocument, "error",
                                 <<"Document not found">>, NoText, lookup.calls)]
        /\ UNCHANGED <<storageType, repo, s3, files, nextId, created>>

\* The retrieval chain on the record the lookup returned.
ReaderContent ==
    LET r == ReadContent(op[Reader].document, {}, op[Reader].calls)
    IN  /\ op[Reader].pc = "found"
        /\ op' = [op EXCEPT ![Reader] =
                    Reading("done", @.id, @.document, r.status, r.error, r.content,
                            r.calls)]
        /\ UNCHANGED <<storageType, repo, s3, files, nextId, created>>

NextReadRace ==
    \/ ReaderLookup \/ ReaderContent
    \/ RaceLookup \/ RaceRemoveContent \/ RaceRemoveRecord

SpecReadRace == InitReadRace /\ [][NextReadRace]_vars

\* ------------------------------------------------------- useDocuments hook
\* The React hook of the frontend. In SpecHook, op holds the hook's state
\* (documents, loading, uploading, deleting), the calls of its functions in
\* issue order and the server's list. A list is stood for by its version: the
\* number of uploads and deletes the server had carried out when it answered;
\* documents starts as the empty list, version 0. Each request is answered by
\* the server in one step and its response reaches the hook in a later one, in
\* any order.
MaxHookCalls == 2

NoResponse == -1

FailedResponse == -2

HookCall(kind, pc, list) ==
    [kind |-> kind, pc |-> pc, ok |-> "none", list |-> list,
     resp |-> NoResponse, listed |-> FALSE, result |-> "none"]

InitHook ==
    /\ storageType = "filesystem"
    /\ repo = EmptyMap
    /\ s3 = EmptyMap
    /\ files = [q \in Paths |-> NoFile]
    /\ nextId = 1
    /\ created = EmptyMap
    /\ op = [documents |-> 0, loading |-> FALSE, uploading |-> FALSE,
             deleting |-> FALSE, calls |-> <<>>, server |-> 0, issued |-> 0]

\* fetchDocuments(): setLoading(true); await axios.get('/api/document/list')
HookFetch ==
    /\ Len(op.calls) < MaxHookCalls
    /\ op' = [op EXCEPT !.loading = TRUE,
                        !.issued = @ + 1,
                        !.calls = Append(@, HookCall("fetch", "listing", op.issued + 1))]
    /\ UNCHANGED <<storageType, repo, s3, files, nextId, created>>

\* uploadDocument(file): setUploading(true); await axios.post(...)
HookUpload ==
    /\ Len(op.calls) < MaxHookCalls
    /\ op' = [op EXCEPT !.uploading = TRUE,
                        !.calls = Append(@, HookCall("upload", "requesting", 0))]
    /\ UNCHANGED <<storageType, repo, s3, files, nextId, created>>

\* deleteDocument(id): setDeleting(true); await axios.delete(...)
HookDelete ==
    /\ Len(op.calls) < MaxHookCalls
    /\ op' = [op EXCEPT !.deleting = TRUE,
                        !.calls = Append(@, HookCall("delete", "requesting", 0))]
    /\ UNCHANGED <<storageType, repo, s3, files, nextId, created>>

\* The server carries out a pending upload or delete request, or rejects it.
ServeMutation ==
    \E i \in DOMAIN op.calls, accepted \in BOOLEAN :
        /\ op.calls[i].pc = "requesting"
        /\ op.calls[i].ok = "none"
        /\ op' = [op EXCEPT !.server = IF accepted THEN @ + 1 ELSE @,
                            !.calls[i].ok = IF accepted THEN "ok" ELSE "failed"]
        /\ UNCHANGED <<storageType, repo, s3, files, nextId, created>>

\* Variant: the call returns true as soon as its request went through.
HookResumeMutation_NoFetch ==
    \E i \in DOMAIN op.calls :
        LET c == op.calls[i]
            flag == IF c.kind = "upload" THEN "uploading" ELSE "deleting"
        IN  /\ c.pc = "requesting"
            /\ c.ok # "none"
            /\ op' = [op EXCEPT ![flag] = FALSE,
                                !.calls[i] = [c EXCEPT !.pc = "done",
                                                !.result = IF c.ok = "ok" THEN "true"
                                                           ELSE "false"]]
            /\ UNCHANGED <<storageType, repo, s3, files, nextId, created>>

\* The response of the upload or delete request arrives. On success the call
\* goes on to await fetchDocuments(); on failure the catch returns false and
\* the finally clears the flag.
HookResumeMutation ==
    \E i \in DOMAIN op.calls :
        LET c == op.calls[i]
            flag == IF c.kind = "upload" THEN "uploading" ELSE "deleting"
        IN  /\ c.pc = "requesting"
            /\ c.ok # "none"
            /\ op' = IF c.ok = "ok"
                     THEN [op EXCEPT !.loading = TRUE,
                                     !.issued = @ + 1,
                                     !.calls[i] = [c EXCEPT !.pc = "listing",
                                                     !.list = op.issued + 1]]
                     ELSE [op EXCEPT ![flag] = FALSE,
                                     !.calls[i] = [c EXCEPT !.pc = "done",
                                                     !.result = "false"]]
            /\ UNCHANGED <<storageType, repo, s3, files, nextId, created>>

\* The server answers a pending list request with its list, or the request fails.
ServeList ==
    \E i \in DOMAIN op.calls, accepted \in BOOLEAN :
        /\ op.calls[i].pc = "listing"
        /\ op.calls[i].resp = NoResponse
        /\ op' = [op EXCEPT !.calls[i].resp = IF accepted THEN op.server
                                              ELSE FailedResponse]
        /\ UNCHANGED <<storageType, repo, s3, files, nextId, created>>

\* The response of a list request arrives: setDocuments(response.data) unless
\* it failed, setLoading(false); an upload or delete that awaited the fetch
\* returns true and its finally clears its flag.
HookResumeList ==
    \E i \in DOMAIN op.calls :
        LET c == op.calls[i]
            shown == IF c.resp = FailedResponse THEN op.documents ELSE c.resp
            done == [c EXCEPT !.pc = "done", !.listed = TRUE,
                              !.result = IF c.kind = "fetch" THEN "void" ELSE "true"]
        IN  /\ c.pc = "listing"
            /\ c.resp # NoResponse
            /\ op' = IF c.kind = "fetch"
                     THEN [op EXCEPT !.documents = shown, !.loading = FALSE,
                                     !.calls[i] = done]
                     ELSE [op EXCEPT !.documents = shown, !.loading = FALSE,
                                     ![IF c.kind = "upload" THEN "uploading"
                                       ELSE "deleting"] = FALSE,
                                     !.calls[i] = done]
            /\ UNCHANGED <<storageType, repo, s3, files, nextId, created>>

NextHook ==
    \/ HookFetch \/ HookUpload \/ HookDelete
    \/ ServeMutation \/ HookResumeMutation \/ ServeList \/ HookResumeList

SpecHook == InitHook /\ [][NextHook]_vars

\* ------------------------------------------------------- DocumentViewer
\* The viewer modal and the two handlers of DocumentList that drive it. In
\* SpecViewer, op holds the props the list passes down (open, documentId), the
\* viewer's own state (loading, content, error) and the fetchContent calls in
\* issue order. The viewer stays mounted while closed, so a response that
\* arrives after a close still sets its state.
MaxViews == 3

ViewerIds == {1, 2}

NoSelection == 0

NoError == "null"

FetchFailed == "Failed to fetch document content"

\* The content the server returns for a document: one text per document.
ServedContent(id) == <<"content of", id>>

ViewerFetch(id) == [id |-> id, pc |-> "pending"]

InitViewer ==
    /\ storageType = "filesystem"
    /\ repo = EmptyMap
    /\ s3 = EmptyMap
    /\ files = [q \in Paths |-> NoFile]
    /\ nextId = 1
    /\ created = EmptyMap
    /\ op = [open |-> FALSE, documentId |-> NoSelection, loading |-> FALSE,
             content |-> <<>>, error |-> NoError, fetches |-> <<>>]

\* handleViewDocument(id, name), then the viewer's effect on [open, documentId]:
\* loadDocumentContent(id) sets loading, clears error and awaits fetchContent(id).
\* The open modal covers the list, so a document is opened from the closed state.
handleViewDocument ==
    \E id \in ViewerIds :
        /\ ~op.open
        /\ Len(op.fetches) < MaxViews
        /\ op' = [op EXCEPT !.open = TRUE,
                            !.documentId = id,
                            !.loading = TRUE,
                            !.error = NoError,
                            !.fetches = Append(@, ViewerFetch(id))]
        /\ UNCHANGED <<storageType, repo, s3, files, nextId, created>>

\* handleClose: setContent(''); setError(null); onClose(), which is
\* handleCloseViewer: setIsViewerOpen(false); setSelectedDocument(null).
handleClose ==
    /\ op.open
    /\ op' = [op EXCEPT !.open = FALSE,
                        !.documentId = NoSelection,
                        !.content = <<>>,
                        !.error = NoError]
    /\ UNCHANGED <<storageType, repo, s3, files, nextId, created>>

\* The rest of loadDocumentContent once fetchContent(id) resolves: data sets
\* the content, null sets the error, the finally clears loading.
loadDocumentContent ==
    \E i \in DOMAIN op.fetches, found \in BOOLEAN :
        /\ op.fetches[i].pc = "pending"
        /\ op' = [op EXCEPT !.content = IF found THEN ServedContent(op.fetches[i].id)
                                        ELSE @,
                            !.error = IF found THEN @ ELSE FetchFailed,
                            !.loading = FALSE,
                            !.fetches[i].pc = "done"]
        /\ UNCHANGED <<storageType, repo, s3, files, nextId, created>>

NextViewer == handleViewDocument \/ handleClose \/ loadDocumentContent

SpecViewer == InitViewer /\ [][NextViewer]_vars

\* ------------------------------------------------- reading an observation
Attempted(fn) == \E i \in DOMAIN op.calls : op.calls[i].fn = fn

Succeeded(fn) == \E i \in DOMAIN op.calls : op.calls[i].fn = fn /\ op.calls[i].ok

Failed(fn) == \E i \in DOMAIN op.calls : op.calls[i].fn = fn /\ ~op.calls[i].ok

AllCallsOk == \A i \in DOMAIN op.calls : op.calls[i].ok

\* The bytes a returned text stands for when written back as UTF-8, to compare
\* it with the bytes that were supplied.
RECURSIVE Utf8Encode(_)
Utf8Encode(t) ==
    IF t = <<>> THEN <<>>
    ELSE IF t[1] < 128 THEN <<t[1]>> \o Utf8Encode(Tail(t))
    ELSE IF t[1] < 2048
         THEN <<192 + (t[1] \div 64), 128 + (t[1] % 64)>> \o Utf8Encode(Tail(t))
    ELSE <<224 + (t[1] \div 4096), 128 + ((t[1] \div 64) % 64), 128 + (t[1] % 64)>>
         \o Utf8Encode(Tail(t))

\* The content createDocument stored for record id is where it was put and as
\* it was put.
ContentUnchanged(id) ==
    LET b == BackendOf(created[id].storage)
    IN  IF b = "s3"
        THEN repo[id].s3Key \in DOMAIN s3 /\ s3[repo[id].s3Key] = created[id].bytes
        ELSE IF b = "mongodb" THEN TRUE
        ELSE repo[id].path \in Paths /\ files[repo[id].path] = created[id].bytes

\* The last call was getDocumentContent(id) on a record created under the
\* backend that is still active, its content untouched since.
ReadBack(id) ==
    /\ op.kind = "get"
    /\ op.id = id
    /\ BackendOf(created[id].storage) = ActiveBackend
    /\ ContentUnchanged(id)

\* ------------------------------------------------------------------ claims

\* C1 as stated: with backend and content unchanged, getDocumentContent on a
\* created record succeeds and its content is exactly the bytes supplied to
\* createDocument.
C1_ReadBackExact ==
    \A id \in DOMAIN repo :
        ReadBack(id) =>
            op.status = "ok" /\ Utf8Encode(op.content) = created[id].bytes

\* C1 amended: with backend and content unchanged, a getDocumentContent whose
\* lookup and read or fetch all go through succeeds with the UTF-8 decoding of
\* the supplied bytes; where no file existed at the path it fails.
C1_ReadBackText ==
    \A id \in DOMAIN repo :
        ReadBack(id) =>
            /\ AllCallsOk =>
                  op.status = "ok" /\ op.content = Utf8Decode(created[id].bytes)
            /\ created[id].bytes = NoFile => op.status = "error"

C1_Witness ==
    \E id \in DOMAIN repo :
        /\ ReadBack(id)
        /\ ActiveBackend = "mongodb"
        /\ op.status = "ok"
        /\ op.content = <<233>>

\* C2: s3 active, record with an s3Key, remote delete fails: the call fails
\* with a deletion error, the metadata delete is not attempted and the record
\* is still in the metadata store.
C2_RemoteDeleteFailureAborts ==
    (op.kind = "delete" /\ isS3Storage /\ Failed("s3delete")) =>
        /\ op.status = "error"
        /\ Head(op.error) = "Failed to delete document"
        /\ ~Attempted("delete")
        /\ op.id \in DOMAIN repo

C2_Witness ==
    /\ op.kind = "delete" /\ isS3Storage /\ Failed("s3delete")
    /\ op.error = <<"Failed to delete document", "Failed to delete file from S3",
                    "NetworkError">>
    /\ op.id \in DOMAIN repo

C4_UnlinkFailureStillSucceeds ==
    (op.kind = "delete" /\ ActiveBackend = "filesystem" /\ Failed("unlink")) =>
        /\ op.status = "ok"
        /\ op.id \notin DOMAIN repo

\* C4 amended: when removing the file fails the failure is dropped and the
\* metadata delete is attempted all the same; the record is gone and the call
\* succeeds unless that metadata delete itself fails, and then the error is
\* the metadata delete's, not the unlink's.
C4_UnlinkFailureSwallowed ==
    (op.kind = "delete" /\ ActiveBackend = "filesystem" /\ Failed("unlink")) =>
        /\ Attempted("delete")
        /\ Succeeded("delete") => (op.status = "ok" /\ op.id \notin DOMAIN repo)
        /\ Failed("delete") =>
              op.error = <<"Failed to delete document", "Database error">>

C4_Witness ==
    /\ op.kind = "delete" /\ ActiveBackend = "filesystem"
    /\ Failed("unlink") /\ Succeeded("delete")
    /\ op.status = "ok"
    /\ op.id \notin DOMAIN repo

\* C5: a createDocument that fails, whatever the backend and the point of
\* failure, leaves the metadata store and the remote bucket as they were.
C5_FailedCreateChangesNothing ==
    [][(op'.kind = "create" /\ op'.status = "error") => (repo' = repo /\ s3' = s3)]_vars

\* C6 as stated: getDocumentContent fails on every record created under a
\* backend other than the active one.
C6_OtherBackendUnreadable ==
    \A id \in DOMAIN repo :
        (op.kind = "get" /\ op.id = id
            /\ BackendOf(created[id].storage) # ActiveBackend) =>
            op.status = "error"

\* C6 amended: getDocumentContent fails on every record created under s3 or
\* mongodb while another backend is active; a record created under filesystem
\* is still read from its path under s3 and mongodb.
C6_OtherBackendUnreadableUnlessPath ==
    \A id \in DOMAIN repo :
        (op.kind = "get" /\ op.id = id
            /\ BackendOf(created[id].storage) # ActiveBackend) =>
            /\ BackendOf(created[id].storage) \in {"s3", "mongodb"} =>
                  op.status = "error"
            /\ (BackendOf(created[id].storage) = "filesystem" /\ Succeeded("findOneBy")) =>
                  /\ Attempted("readFile")
                  /\ Succeeded("readFile") =>
                        (op.status = "ok" /\ op.content = Utf8Decode(files[repo[id].path]))

C6_Witness ==
    \E id \in DOMAIN repo :
        /\ op.kind = "get" /\ op.id = id
        /\ created[id].storage = "s3" /\ isMongoDBStorage
        /\ Succeeded("findOneBy")
        /\ op.status = "error"

\* C7: getDocumentContent on a record that matches none of the precedence
\* conditions fails with the no-valid-location error, and fails with the
\* content-read error only when a file read or a remote fetch was attempted
\* and failed.
C7_LocationAndReadFailuresDistinct ==
    \A id \in DOMAIN repo :
        (op.kind = "get" /\ op.id = id /\ Succeeded("findOneBy")) =>
            /\ ContentLocation(repo[id]) = "none" =>
                  (op.status = "error" /\ Head(op.error) = NoValidLocation)
            /\ (op.status = "error" /\ Head(op.error) = "Failed to read document content") =>
                  (Failed("readFile") \/ Failed("s3get"))

\* C8: getDocumentContent and deleteDocument on an id without a record, or on
\* a malformed id, fail with 'Document not found', make no call beyond the
\* lookup and change nothing.
C8_NotFoundTouchesNothing ==
    [][(op'.kind \in {"get", "delete"} /\ op'.id \notin DOMAIN repo) =>
          /\ op'.status = "error"
          /\ op'.error = <<"Document not found">>
          /\ \A i \in DOMAIN op'.calls : op'.calls[i].fn = "findOneBy"
          /\ UNCHANGED <<repo, s3, files>>]_vars

C8_Witness ==
    /\ op.kind = "delete"
    /\ op.id # MalformedId
    /\ Succeeded("findOneBy")
    /\ op.error = <<"Document not found">>

\* C9: createDocument fails with an invalid-input error, making no call at
\* all, when filesystem is active and no path is given (a buffer or not), and
\* when s3 or mongodb is active and neither path nor buffer is given.
C9_MissingInputRejected ==
    /\ (op.kind = "create" /\ ActiveBackend = "filesystem" /\ ~Truthy(op.path)) =>
          /\ op.status = "error"
          /\ op.error = <<"Path must be provided for filesystem storage">>
          /\ op.calls = <<>>
    /\ (op.kind = "create" /\ ActiveBackend # "filesystem"
            /\ ~Truthy(op.path) /\ op.buffer = NoBuffer) =>
          /\ op.status = "error"
          /\ op.error \in {<<"Either path or fileBuffer must be provided for S3 storage">>,
                           <<"Either path or fileBuffer must be provided for MongoDB storage">>}
          /\ op.calls = <<>>

C9_Witness ==
    /\ op.kind = "create" /\ isMongoDBStorage
    /\ op.path = NoPath /\ op.buffer = NoBuffer
    /\ op.error = <<"Either path or fileBuffer must be provided for MongoDB storage">>

\* C10: every record in the metadata store has at most one of path, buffer
\* and s3Key populated, and it is the locator of the backend that was active
\* when createDocument stored it.
C10_OneLocatorOfCreatingBackend ==
    \A id \in DOMAIN repo :
        LET populated == {f \in {"path", "buffer", "s3Key"} :
                            \/ f = "path" /\ repo[id].path # NoPath
                            \/ f = "buffer" /\ repo[id].buffer # NoBuffer
                            \/ f = "s3Key" /\ repo[id].s3Key # NoKey}
            b == BackendOf(created[id].storage)
        IN  populated = {IF b = "s3" THEN "s3Key"
                         ELSE IF b = "mongodb" THEN "buffer" ELSE "path"}

C10_Witness ==
    \E id \in DOMAIN repo :
        /\ created[id].storage = "mongodb"
        /\ repo[id].buffer = <<255>>
        /\ repo[id].path = NoPath

\* C11: under every backend, when the metadata store's delete fails during
\* deleteDocument the call fails with the deletion error wrapped around the
\* cause's message, and the record is still in the metadata store.
C11_MetadataDeleteFailureReported ==
    (op.kind = "delete" /\ Failed("delete")) =>
        /\ op.status = "error"
        /\ op.error = <<"Failed to delete document", "Database error">>
        /\ op.id \in DOMAIN repo

C11_Witness ==
    /\ op.kind = "delete" /\ Failed("delete")
    /\ isS3Storage /\ Succeeded("s3delete")
    /\ op.error = <<"Failed to delete document", "Database error">>

\* C12: a deleteDocument call reports success only when its metadata delete
\* removed the record; a call whose delete removes nothing, because another
\* deleteDocument on the same id removed the record first, fails.
C12_SuccessOnlyWhenRemoved ==
    \A p \in DOMAIN op :
        (op[p].pc = "done" /\ op[p].status = "ok") => op[p].affected = 1

\* A record that was created and is no longer in the metadata store: ids are
\* handed out in sequence and never handed out twice.
Gone(id) == id \in 1..(nextId - 1) /\ id \notin DOMAIN repo

\* C13: a record leaves the metadata store only in a successful
\* deleteDocument on its id, a successful deleteDocument leaves it gone, and
\* once it is gone it stays gone: every later getDocumentContent and
\* deleteDocument on the id fails with 'Document not found' and every list
\* getAllDocuments returns is without it.
C13_DeletedStaysDeleted ==
    [][/\ \A id \in DOMAIN repo :
            id \notin DOMAIN repo' =>
                op'.kind = "delete" /\ op'.id = id /\ op'.status = "ok"
       /\ (op'.kind = "delete" /\ op'.status = "ok") => op'.id \notin DOMAIN repo'
       /\ \A id \in Ids :
            Gone(id) =>
                /\ id \notin DOMAIN repo'
                /\ (op'.kind \in {"get", "delete"} /\ op'.id = id) =>
                      op'.status = "error" /\ op'.error = <<"Document not found">>
                /\ (op'.kind = "list" /\ op'.status = "ok") =>
                      \A i \in DOMAIN op'.content : op'.content[i].id # id
      ]_vars

C13_Witness ==
    /\ Gone(1)
    /\ op.kind = "get" /\ op.id = 1
    /\ op.error = <<"Document not found">>

\* C14: with mongodb active, a deleteDocument that finds its record makes no
\* remote delete and no unlink, whatever locator the record has: the bucket and
\* the files are as before, the metadata delete is the only call after the
\* lookup, and the record is gone when that delete goes through.
C14_EmbeddedDeleteTouchesNoContent ==
    [][(/\ op'.kind = "delete"
        /\ isMongoDBStorage
        /\ op'.id \in DOMAIN repo
        /\ op'.calls # <<>>
        /\ op'.calls[1] = Call("findOneBy", op'.id, TRUE))
       => /\ s3' = s3
          /\ files' = files
          /\ Len(op'.calls) = 2
          /\ op'.calls[2].fn = "delete"
          /\ op'.calls[2].ok => op'.status = "ok" /\ op'.id \notin DOMAIN repo'
      ]_vars

C14_Witness ==
    /\ op.kind = "delete" /\ isMongoDBStorage
    /\ op.status = "ok"
    /\ Gone(op.id)
    /\ op.calls = <<Call("findOneBy", op.id, TRUE), Call("delete", op.id, TRUE)>>
    /\ s3 # EmptyMap

\* C15: whatever STORAGE_TYPE the process was started with, exactly one of
\* isS3Storage, isMongoDBStorage and isFileSystemStorage answers true, and it
\* is isFileSystemStorage unless the value was 's3' or 'mongodb'.
C15_ExactlyOneBackendReported ==
    LET reported == <<isS3Storage, isMongoDBStorage, isFileSystemStorage>>
    IN  /\ Cardinality({b \in 1..3 : reported[b]}) = 1
        /\ storageType \notin {"s3", "mongodb"} => isFileSystemStorage

\* C16: in each storage mode, an upload request that carries a file reaches
\* createDocument with inputs its branch accepts: unless a call to the
\* store or the bucket fails, the upload is stored and its record exists.
C16_UploadStoredInEveryMode ==
    (op.kind = "upload" /\ op.path # NoPath /\ AllCallsOk) =>
        op.status = "ok" /\ op.id \in DOMAIN repo

\* C17: when the store answers, getAllDocuments returns every record of the
\* metadata store exactly once, a record created later never after one
\* created earlier, and the empty list when the store is empty.
C17_ListsAllNewestFirst ==
    (op.kind = "list" /\ Succeeded("find")) =>
        /\ op.status = "ok"
        /\ Len(op.content) = Cardinality(DOMAIN repo)
        /\ {op.content[i].id : i \in DOMAIN op.content} = DOMAIN repo
        /\ \A i \in DOMAIN op.content :
              op.content[i].createdAt = repo[op.content[i].id].createdAt
        /\ \A i, j \in DOMAIN op.content :
              i < j => op.content[i].createdAt >= op.content[j].createdAt
        /\ repo = EmptyMap => op.content = <<>>

C17_Witness ==
    /\ op.kind = "list" /\ op.status = "ok"
    /\ Len(op.content) = 3
    /\ op.content[1].createdAt > op.content[3].createdAt
    /\ op.content[1].id < op.content[3].id

\* Two names that differ, if at all, only where both have a character
\* outside [A-Za-z0-9.-].
SameWhenSanitized(a, b) ==
    /\ Len(a) = Len(b)
    /\ \A i \in 1..Len(a) :
          a[i] = b[i] \/ (a[i] \notin AllowedChars /\ b[i] \notin AllowedChars)

C19_KeyFormat ==
    \A i \in DOMAIN op.keys :
        LET call == op.inputs[i]
            key == op.keys[i]
            n == Len(call.originalName)
            sanitized == SubSeq(key, Len(key) - n + 1, Len(key))
        IN  /\ Len(key) >= n
            /\ SubSeq(key, 1, Len(key) - n) =
                  <<"documents/">> \o Decimal(call.timestamp) \o <<"-">>
                      \o call.randomString \o <<"-">>
            /\ Len(sanitized) = n
            /\ \A k \in 1..n :
                  sanitized[k] = IF call.originalName[k] \in AllowedChars
                                 THEN call.originalName[k] ELSE "_"

C19_Witness ==
    /\ Len(op.keys) >= 1
    /\ op.inputs[1] = [originalName |-> <<"-", " ">>, timestamp |-> 10,
                       randomString |-> <<"z">>]
    /\ op.keys[1] = <<"documents/", "1", "0", "-", "z", "-", "-", "_">>

\* C20 as stated: for an object of the bucket, downloadFile fails when the
\* response has no body, with an outcome of another kind than the outcome of
\* a transport failure of the same call.
C20_NoBodyDistinctFromTransport ==
    \A key \in DOMAIN s3 :
        LET nobody == downloadFile(key, {"s3nobody"})
            transport == downloadFile(key, {"s3get"})
        IN  ~nobody.ok /\ Head(nobody.err) # Head(transport.err)

\* C20 amended: for an object of the bucket, downloadFile fails when the
\* response has no body, with the download error that also wraps a transport
\* failure of the same call; the two differ in the cause text after the
\* wrapper only, 'No content in S3 response' for the missing body.
C20_NoBodyWrappedLikeTransport ==
    \A key \in DOMAIN s3 :
        LET nobody == downloadFile(key, {"s3nobody"})
            transport == downloadFile(key, {"s3get"})
        IN  /\ ~nobody.ok /\ ~transport.ok
            /\ nobody.err = <<"Failed to download file from S3",
                              "No content in S3 response">>
            /\ Len(transport.err) = 2
            /\ Head(transport.err) = Head(nobody.err)

C20_Witness ==
    /\ op.kind = "get" /\ isS3Storage
    /\ Failed("s3get")
    /\ op.id \in DOMAIN repo /\ repo[op.id].s3Key \in DOMAIN s3
    /\ op.error = <<"Failed to read document content",
                    "Failed to download file from S3", "No content in S3 response">>

\* C21: an upload or delete made through the hook returns true only after its
\* request succeeded and the list fetch it then issued has finished, and
\* returns false, with no list fetch issued, when its request failed.
C21_RefetchBeforeTrue ==
    \A i \in DOMAIN op.calls :
        LET c == op.calls[i]
        IN  c.kind \in {"upload", "delete"} =>
                /\ c.result = "true" => c.ok = "ok" /\ c.list > 0 /\ c.listed
                /\ c.ok = "failed" => c.list = 0 /\ ~c.listed
                /\ c.pc = "done" => c.result = (IF c.ok = "ok" THEN "true" ELSE "false")

C21_Witness ==
    \E i, j \in DOMAIN op.calls :
        /\ op.calls[i].kind = "upload" /\ op.calls[i].result = "true"
        /\ op.calls[i].listed
        /\ op.calls[j].kind = "delete" /\ op.calls[j].result = "false"

\* C22: in every interleaving of a getDocumentContent with deleteDocument
\* calls on the same id, the getDocumentContent ends by returning content or
\* by failing with 'Document not found', never in another failure.
C22_RacingReadFindsOrNotFound ==
    op[Reader].pc = "done" =>
        op[Reader].status = "ok" \/ op[Reader].error = <<"Document not found">>

\* The last step was a deleteDocument that found its record.
DeletedFound ==
    /\ op'.kind = "delete"
    /\ op'.id \in DOMAIN repo
    /\ op'.calls # <<>>
    /\ op'.calls[1] = Call("findOneBy", op'.id, TRUE)

\* C23 as stated: under every active storage and for every record,
\* deleteDocument removes content where getDocumentContent would read it:
\* it calls unlink on the path whenever getDocumentContent would read the
\* file, and deletes the object whenever getDocumentContent would fetch it.
C23_DeleteWhereRead ==
    [][DeletedFound =>
          LET document == repo[op'.id]
          IN  /\ ContentLocation(document) = "path" =>
                    \E i \in DOMAIN op'.calls :
                        op'.calls[i].fn = "unlink" /\ op'.calls[i].arg = document.path
              /\ ContentLocation(document) = "s3Key" =>
                    \E i \in DOMAIN op'.calls :
                        op'.calls[i].fn = "s3delete" /\ op'.calls[i].arg = document.s3Key
      ]_vars

\* C23 amended: deleteDocument deletes the object whenever getDocumentContent
\* would fetch it, and calls unlink on the path whenever getDocumentContent
\* would read the file and mongodb is not the active storage; with mongodb
\* active it removes no file, also for a record whose file getDocumentContent
\* reads.
C23_DeleteWhereReadUnlessEmbedded ==
    [][DeletedFound =>
          LET document == repo[op'.id]
          IN  /\ (ContentLocation(document) = "path" /\ ~isMongoDBStorage) =>
                    \E i \in DOMAIN op'.calls :
                        op'.calls[i].fn = "unlink" /\ op'.calls[i].arg = document.path
              /\ (ContentLocation(document) = "path" /\ isMongoDBStorage) =>
                    \A i \in DOMAIN op'.calls : op'.calls[i].fn # "unlink"
              /\ ContentLocation(document) = "s3Key" =>
                    \E i \in DOMAIN op'.calls :
                        op'.calls[i].fn = "s3delete" /\ op'.calls[i].arg = document.s3Key
      ]_vars

C23_Witness ==
    /\ op.kind = "delete" /\ isMongoDBStorage
    /\ op.status = "ok" /\ Gone(op.id)
    /\ ~Attempted("unlink")
    /\ \E q \in Paths : files[q] # NoFile

\* C24: when the metadata store fails during the lookup, getDocumentContent
\* and deleteDocument do not report 'Document not found': the caller gets an
\* outcome distinct from the one for an absent or malformed id.
C24_LookupFailureNotAbsence ==
    (op.kind \in {"get", "delete"} /\ Failed("findOneBy")) =>
        op.status = "error" /\ op.error # <<"Document not found">>

\* C25: every createDocument, getDocumentContent and deleteDocument call ends
\* with a result after at most three external calls, none of them made twice:
\* a failed external call ends the call or is dropped, it is never retried.
C25_EachExternalCallOnce ==
    op.kind \in {"create", "get", "delete"} =>
        /\ op.status \in {"ok", "error"}
        /\ Len(op.calls) <= 3
        /\ \A i, j \in DOMAIN op.calls : i # j => op.calls[i].fn # op.calls[j].fn
        /\ \A i \in DOMAIN op.calls :
              (~op.calls[i].ok /\ op.calls[i].fn # "unlink") => i = Len(op.calls)

C25_Witness ==
    /\ op.kind = "delete" /\ op.status = "error"
    /\ Len(op.calls) = 3
    /\ Failed("unlink") /\ Failed("delete")

\* C26: with s3 active, in every state reached by createDocument and
\* deleteDocument calls, failed ones included, the s3Key of every record
\* names an object that exists in the bucket.
C26_RecordedKeysExist ==
    isS3Storage =>
        \A id \in DOMAIN repo :
            repo[id].s3Key # NoKey => repo[id].s3Key \in DOMAIN s3

\* C27: getAllDocuments and getDocumentContent, with the getDocumentById
\* lookup inside it, change nothing: the metadata store, the bucket and the
\* files are the same after the call as before, whether it succeeded or failed.
C27_ReadsChangeNothing ==
    [][op'.kind \in {"get", "list"} =>
          repo' = repo /\ s3' = s3 /\ files' = files]_vars

C27_Witness ==
    /\ op.kind = "get" /\ op.status = "ok"
    /\ Succeeded("readFile")
    /\ op.id \in DOMAIN repo
    /\ files[repo[op.id].path] # NoFile

\* C28: in useDocuments, once every request in flight has completed, documents
\* holds the response of the list request that was issued last, in whatever
\* order the responses of overlapping list requests arrived.
C28_LatestListShown ==
    \A i \in DOMAIN op.calls :
        LET c == op.calls[i]
        IN  (/\ \A j \in DOMAIN op.calls : op.calls[j].pc = "done"
             /\ c.list = op.issued
             /\ c.list > 0
             /\ c.resp # FailedResponse)
                => op.documents = c.resp

\* C29: whenever the viewer is open for a document, is not loading and shows
\* no error, the content it displays is the content fetched for that
\* document, for every order of open, close and re-open and every arrival
\* order of the fetch responses.
C29_ViewerShowsOpenDocument ==
    (op.open /\ ~op.loading /\ op.error = NoError) =>
        op.content = ServedContent(op.documentId)

\* C30: in useDocuments, loading, uploading and deleting are each true while
\* at least one request of their kind is in flight, overlapping calls of the
\* same operation included, and false once none is.
C30_BusyWhileInFlight ==
    LET InFlightOf(kind) ==
            \E i \in DOMAIN op.calls :
                op.calls[i].kind = kind /\ op.calls[i].pc # "done"
        Listing == \E i \in DOMAIN op.calls : op.calls[i].pc = "listing"
    IN  /\ op.loading <=> Listing
        /\ op.uploading <=> InFlightOf("upload")
        /\ op.deleting <=> InFlightOf("delete")

====
